---------------------------- MODULE Spec2Model ----------------------------
(***************************************************************************)
(* PyHomeAutomate: the shared state data base (src/src/statedb.py) and the *)
(* skill run loop (src/src/skills.py), one thread per skill.               *)
(*                                                                         *)
(* Every skill thread is a small program counter machine.  The steps are   *)
(* the source lines at which another thread can observe or disturb the     *)
(* thread: the mutex acquire/release of getState and setState, the write,  *)
(* each observer callback of notifyObservers, and the individual tests and *)
(* mutations of the lock-free registerObserver.                            *)
(***************************************************************************)
EXTENDS Naturals, Sequences, FiniteSets

\* ------------------------------------------------------------------ bounds
\* the interval of a waiting skill, in ticks (Skill.interval)
MaxInterval == 1
\* the last value of datetime.now() in the device detection
MaxNow == 2

\* ------------------------------------------------------------- the domains
Skills == {"s1", "s2"}
\* the keys handed to the store; "" is the empty key (len(key) == 0)
Keys == {"", "k"}
\* the keys of the store: those above and a second non-empty key
StoreKeys == Keys \cup {"k2"}
Values == {"v1", "v2"}
ObserverIds == {"o1", "o2"}
\* Python's None: the absent value of getState, "no thread" for the mutex
None == "None"

\* len(key) > 0 (statedb.py:96, skills.py:276, skills.py:292)
NonEmpty(key) == key # ""

\* the request a task body is executing: kind of store call and arguments
NoCall == [kind |-> "none", key |-> "", val |-> None, obs |-> None]
GetCall(k) == [kind |-> "get", key |-> k, val |-> None, obs |-> None]
SetCall(k, v) == [kind |-> "set", key |-> k, val |-> v, obs |-> None]
RegCall(k, o) == [kind |-> "reg", key |-> k, val |-> None, obs |-> o]

\* the list object a notifyObservers loop iterates: the one the observers
\* dict holds (live), or a list the dict no longer holds (its contents)
LiveIter == [live |-> TRUE, list |-> <<>>]
DetachedIter(l) == [live |-> FALSE, list |-> l]

\* the skill list of homeautomate.py:19-25, in list order
SkillOrder == <<"s1", "s2">>
\* time.sleep(10) after every start (homeautomate.py:31), in seconds
StartDelay == 10

\* the main thread before the __main__ block runs: pc is its position, i
\* the index of the for loop it is in, slept the seconds of the running
\* time.sleep, intr and err whether KeyboardInterrupt or another Exception
\* was raised inside the try block
OrchIdle == [pc |-> "idle", i |-> 0, slept |-> 0, intr |-> FALSE, err |-> FALSE]

\* findSkillSettingWithKeyOrDefault("maxCloudsClear", 80) and
\* ("minCloudsCloudy", 90) (hueskill.py:95-98), in percent of cloud cover
DefaultMaxCloudsClear == 80
DefaultMinCloudsCloudy == 90

\* what HueDaytimeAndWeatherSkill.task reads: whether the weather and the
\* daytime state exist, weather.getClouds(), weather.isRaining(), the
\* daytime of the DaytimeState and its bedTime
HueNoInput == [weather |-> FALSE, daytime |-> FALSE, clouds |-> 0,
               rain |-> FALSE, state |-> "Day", bedTime |-> FALSE]

\* HueDaytimeAndWeatherSkill after __init__ with default thresholds
\* (hueskill.py:95-101); in is what its last task() read, ran whether
\* task() has run, acted whether that task() called the light action of
\* a mode and raised whether that call raised
HueIdle == [maxCloudsClear |-> DefaultMaxCloudsClear,
            minCloudsCloudy |-> DefaultMinCloudsCloudy,
            lastModeSet |-> "", in |-> HueNoInput, ran |-> FALSE,
            acted |-> FALSE, raised |-> FALSE]

\* DaytimeSkill.checkBedTime not yet called: table is self.bedTime (a
\* weekday, 0 for monday, to <<start, end>> in half hours of the day), d
\* and t the day and the half hour of the day of datetime.now()
BedIdle == [table |-> <<>>, d |-> 0, t |-> 0, result |-> FALSE, ran |-> FALSE]

\* DaytimeSkill.task not begun: step is its position, fresh whether
\* daytimeState is a new DaytimeState(), bedTime the value of
\* checkBedTime(), cycles whether a task() has ended
DayIdle == [step |-> "idle", fresh |-> FALSE, bedTime |-> FALSE, cycles |-> FALSE]

\* the configured deviceAddresses, prefixed with STATE_PREFIX: the keys
\* DetectDevicePresenceSkill writes
Addresses == <<"k", "k2">>

\* a DevicePresenceState: currentlyPresent and lastDetectedAt
\* (0 for None)
NoDevice == [present |-> FALSE, last |-> 0]

\* DetectDevicePresenceSkill.task not begun: i is the position of the for
\* loop, step the position in its body, result the ping result of the
\* cycle for each address, everOk whether a ping of the address ever
\* succeeded, objs the DevicePresenceState object the task holds for each
\* address, now the value of datetime.now()
DevIdle == [step |-> "probe", i |-> 1,
            result |-> [a \in {"k", "k2"} |-> FALSE],
            everOk |-> [a \in {"k", "k2"} |-> FALSE],
            objs |-> [a \in {"k", "k2"} |-> NoDevice],
            now |-> 1]

\* RaumfeldTVWakeup after __init__ (raumfeldskill.py:71): step is the
\* position in task(); read is what the running or last cycle read of the
\* TV ("none" before the read, "absent", "present" or "away"), tried and
\* woke whether that cycle called wakeup and whether wakeup returned;
\* armed whether no wakeup has returned since the last cycle that read the
\* TV as away
TvIdle == [alreadyAwake |-> FALSE, step |-> "idle", read |-> "none",
           tried |-> FALSE, woke |-> FALSE, armed |-> TRUE]

\* the dict object that the default argument initialStates=dict() of
\* StateDataBase.__init__ is bound to (statedb.py:49), created once when
\* the def statement runs; states is its content
DefaultDict == "dict@def"

\* the StateDataBase instances A and B, each made by StateDataBase():
\* heap is the content of every dict object, states the dict object
\* self.states of each instance refers to (line 57), observers
\* self.observers of each (line 58: a new dict per instance) for key "k",
\* op the last operation called, ret what it returned or whom it notified
TwinIdle == [heap |-> [d \in {"dict@def"} |-> [k \in {"", "k", "k2"} |-> "None"]],
             states |-> [i \in {"A", "B"} |-> "dict@def"],
             observers |-> [i \in {"A", "B"} |-> <<>>],
             op |-> <<>>, ret |-> <<>>]

VARIABLES
    \* ---- StateDataBase
    states,        \* self.states: key -> value, None when the key is absent
    obsKeys,       \* the keys of self.observers
    observers,     \* self.observers[key]: the list of observers of the key
    mutex,         \* self.mutex: None when free, else the thread that took it
    written,       \* history: the keys line 97 has stored a value under
    lastAcq,       \* history: per non-empty key, the value of the setState
                   \* call on it that took the lock last
    \* ---- per thread: where it is inside a store call
    pc,            \* position of the skill thread
    cur,           \* the store call the task body is executing
    idx,           \* position of the for loop of notifyObservers (1-based)
    iter,          \* the list object that loop iterates
    result,        \* the value the last getState of the thread returned
    notified,      \* <<observer, key, value>> callbacks of the current setState
    \* ---- Skill
    stopEvent,     \* self.stopEvent.is_set()
    interval,      \* self.interval
    errorSilent,   \* self.errorSilent
    remaining,     \* ticks left of the running stopEvent.wait(interval)
    joining,       \* the caller of skill.join(): "no", "blocked", "released"
    \* ---- homeautomate.py, the main thread
    orch,          \* where the main thread is: see OrchIdle
    \* ---- the tasks of the skills
    hue,           \* HueDaytimeAndWeatherSkill: see HueIdle
    bed,           \* DaytimeSkill.checkBedTime: see BedIdle
    day,           \* DaytimeSkill.task: see DayIdle
    dev,           \* DetectDevicePresenceSkill.task: see DevIdle
    tv,            \* RaumfeldTVWakeup: see TvIdle
    twin,          \* two more StateDataBase instances: see TwinIdle
    \* ---- history
    ranTask,       \* task() has been invoked at least once
    via,           \* how the thread came to the while condition it is at:
                   \* "start", "wait", "error" or "interrupt"
    errLog,        \* ERROR-level entries printed since task() was last invoked
    stopBeforeStart \* stopEvent was set while the thread was not yet started

storeVars == <<states, obsKeys, observers, mutex, written, lastAcq>>
callVars == <<cur, idx, iter, result, notified>>
moreVars == <<tv, twin>>
taskVars == <<hue, bed, day, dev, moreVars>>
appVars == <<orch, taskVars>>
skillVars == <<stopEvent, interval, errorSilent, remaining, joining, appVars>>
histVars == <<ranTask, via, errLog, stopBeforeStart>>
vars == <<storeVars, pc, callVars, skillVars, histVars>>

\* ---------------------------------------------------------------- Init
\* StateDataBase.__init__ (no initial states, no observers, a free Lock)
\* and Skill.__init__ for every skill (a cleared Event, the given interval
\* and errorSilent flag: s1 prints its errors, s2 is silent); no thread has
\* been started.
InitCore ==
    /\ states = [k \in StoreKeys |-> None]
    /\ obsKeys = {}
    /\ observers = [k \in StoreKeys |-> <<>>]
    /\ mutex = None
    /\ written = {}
    /\ lastAcq = [k \in StoreKeys |-> None]
    /\ pc = [s \in Skills |-> "created"]
    /\ cur = [s \in Skills |-> NoCall]
    /\ idx = [s \in Skills |-> 0]
    /\ iter = [s \in Skills |-> LiveIter]
    /\ result = [s \in Skills |-> None]
    /\ notified = [s \in Skills |-> <<>>]
    /\ stopEvent = [s \in Skills |-> FALSE]
    /\ interval \in [Skills -> {0, MaxInterval}]
    /\ errorSilent = [s \in Skills |-> s = "s2"]
    /\ remaining = [s \in Skills |-> 0]
    /\ joining = [s \in Skills |-> "no"]
    /\ ranTask = [s \in Skills |-> FALSE]
    /\ errLog = [s \in Skills |-> 0]
    /\ via = [s \in Skills |-> "none"]
    /\ stopBeforeStart = [s \in Skills |-> FALSE]

\* the above with the main thread not yet in its __main__ block and no
\* task of the concrete skills begun
Init ==
    /\ InitCore
    /\ orch = OrchIdle
    /\ hue = HueIdle
    /\ bed = BedIdle
    /\ day = DayIdle
    /\ dev = DevIdle
    /\ tv = TvIdle
    /\ twin = TwinIdle


\* ------------------------------------------------------------ helpers
\* what a thread's control variables are when it is outside a store call
ResetCall(s) ==
    /\ cur' = [cur EXCEPT ![s] = NoCall]
    /\ idx' = [idx EXCEPT ![s] = 0]
    /\ iter' = [iter EXCEPT ![s] = LiveIter]
    /\ notified' = [notified EXCEPT ![s] = <<>>]

\* the list the for loop of notifyObservers of thread s walks
CurList(s) == IF iter[s].live THEN observers[cur[s].key] ELSE iter[s].list

\* the elements of list l, as a set
Members(l) == {l[i] : i \in 1..Len(l)}

\* the positions between mutex.acquire() and mutex.release()
GetSection == {"get_76"}
SetSection == {"set_96", "set_130", "set_131", "set_132", "set_99", "cb_75"}
InStoreCall(s) == pc[s] \in GetSection \cup SetSection

\* ------------------------------------------------- StateDataBase.getState
\* line 75: self.mutex.acquire() (blocks while the lock is taken)
GetAcquire(s) ==
    /\ pc[s] = "get_75"
    /\ mutex = None
    /\ mutex' = s
    /\ pc' = [pc EXCEPT ![s] = "get_76"]
    /\ UNCHANGED <<states, obsKeys, observers, written, lastAcq, callVars,
                   skillVars, histVars>>

\* lines 76-79: value = None; if key in self.states: value =
\* self.states[key]; self.mutex.release()
GetBody(s) ==
    /\ pc[s] = "get_76"
    /\ result' = [result EXCEPT ![s] = states[cur[s].key]]
    /\ mutex' = None
    /\ pc' = [pc EXCEPT ![s] = "get_80"]
    /\ UNCHANGED <<states, obsKeys, observers, written, lastAcq, cur, idx,
                   iter, notified, skillVars, histVars>>

\* line 80: return value, into the task body (which consumes it)
GetReturn(s) ==
    /\ pc[s] = "get_80"
    /\ pc' = [pc EXCEPT ![s] = "task"]
    /\ result' = [result EXCEPT ![s] = None]
    /\ ResetCall(s)
    /\ UNCHANGED <<storeVars, skillVars, histVars>>

\* ------------------------------------------------- StateDataBase.setState
\* a setState that does not take the lock (mutant)
SetAcquireNoLock(s) ==
    /\ pc[s] = "set_95"
    /\ pc' = [pc EXCEPT ![s] = "set_96"]
    /\ UNCHANGED <<storeVars, callVars, skillVars, histVars>>

\* line 95: self.mutex.acquire()
SetAcquire(s) ==
    /\ pc[s] = "set_95"
    /\ mutex = None
    /\ mutex' = s
    /\ lastAcq' = IF NonEmpty(cur[s].key)
                    THEN [lastAcq EXCEPT ![cur[s].key] = cur[s].val]
                    ELSE lastAcq
    /\ pc' = [pc EXCEPT ![s] = "set_96"]
    /\ UNCHANGED <<states, obsKeys, observers, written, callVars, skillVars,
                   histVars>>

\* a write that keeps the value a key already has, as
\* self.states.setdefault(key, value) would (mutant)
SetWriteOnce(s) ==
    /\ pc[s] = "set_96"
    /\ IF NonEmpty(cur[s].key)
         THEN /\ states' = [states EXCEPT ![cur[s].key] =
                               IF @ = None THEN cur[s].val ELSE @]
              /\ written' = written \cup {cur[s].key}
              /\ pc' = [pc EXCEPT ![s] = "set_130"]
         ELSE /\ pc' = [pc EXCEPT ![s] = "set_99"]
              /\ UNCHANGED <<states, written>>
    /\ UNCHANGED <<obsKeys, observers, mutex, lastAcq, callVars, skillVars,
                   histVars>>

\* a write that stores the value under every non-empty key (mutant)
SetWriteAllKeys(s) ==
    /\ pc[s] = "set_96"
    /\ IF NonEmpty(cur[s].key)
         THEN /\ states' = [k \in StoreKeys |->
                               IF NonEmpty(k) THEN cur[s].val ELSE states[k]]
              /\ written' = written \cup {cur[s].key}
              /\ pc' = [pc EXCEPT ![s] = "set_130"]
         ELSE /\ pc' = [pc EXCEPT ![s] = "set_99"]
              /\ UNCHANGED <<states, written>>
    /\ UNCHANGED <<obsKeys, observers, mutex, lastAcq, callVars, skillVars,
                   histVars>>

\* a write that gives the lock back before the observers are notified
\* (mutant)
SetWriteThenRelease(s) ==
    /\ pc[s] = "set_96"
    /\ mutex' = None
    /\ IF NonEmpty(cur[s].key)
         THEN /\ states' = [states EXCEPT ![cur[s].key] = cur[s].val]
              /\ written' = written \cup {cur[s].key}
              /\ pc' = [pc EXCEPT ![s] = "set_130"]
         ELSE /\ pc' = [pc EXCEPT ![s] = "set_99"]
              /\ UNCHANGED <<states, written>>
    /\ UNCHANGED <<obsKeys, observers, lastAcq, callVars, skillVars, histVars>>

\* a setState without the test of line 96 (mutant)
SetWriteAnyKey(s) ==
    /\ pc[s] = "set_96"
    /\ states' = [states EXCEPT ![cur[s].key] = cur[s].val]
    /\ written' = written \cup {cur[s].key}
    /\ pc' = [pc EXCEPT ![s] = "set_130"]
    /\ UNCHANGED <<obsKeys, observers, mutex, lastAcq, callVars, skillVars,
                   histVars>>

\* lines 96-97: if len(key) > 0: self.states[key] = value
SetWrite(s) ==
    /\ pc[s] = "set_96"
    /\ IF NonEmpty(cur[s].key)
         THEN /\ states' = [states EXCEPT ![cur[s].key] = cur[s].val]
              /\ written' = written \cup {cur[s].key}
              /\ pc' = [pc EXCEPT ![s] = "set_130"]
         ELSE /\ pc' = [pc EXCEPT ![s] = "set_99"]
              /\ UNCHANGED <<states, written>>
    /\ UNCHANGED <<obsKeys, observers, mutex, lastAcq, callVars, skillVars,
                   histVars>>

\* lines 130-131: if key in self.observers: start the for loop over the list
NotifyLookup(s) ==
    /\ pc[s] = "set_130"
    /\ IF cur[s].key \in obsKeys
         THEN /\ idx' = [idx EXCEPT ![s] = 1]
              /\ pc' = [pc EXCEPT ![s] = "set_131"]
         ELSE /\ pc' = [pc EXCEPT ![s] = "set_99"]
              /\ UNCHANGED idx
    /\ UNCHANGED <<storeVars, cur, iter, result, notified, skillVars, histVars>>

\* lines 131-132: the next observer of the list, if any, is called with
\* (key, self.states[key]); the loop ends when the list is exhausted
NotifyNext(s) ==
    /\ pc[s] = "set_131"
    /\ IF idx[s] <= Len(CurList(s))
         THEN /\ notified' = [notified EXCEPT ![s] =
                     Append(@, <<CurList(s)[idx[s]], cur[s].key,
                                 states[cur[s].key]>>)]
              /\ pc' = [pc EXCEPT ![s] = "set_132"]
         ELSE /\ pc' = [pc EXCEPT ![s] = "set_99"]
              /\ UNCHANGED notified
    /\ UNCHANGED <<storeVars, cur, idx, iter, result, skillVars, histVars>>

\* line 132: observer.stateChangedCallback returns; on to the next observer
CallbackReturn(s) ==
    /\ pc[s] = "set_132"
    /\ idx' = [idx EXCEPT ![s] = @ + 1]
    /\ pc' = [pc EXCEPT ![s] = "set_131"]
    /\ UNCHANGED <<storeVars, cur, iter, result, notified, skillVars, histVars>>

\* line 132: observer.stateChangedCallback raises.  Nothing in
\* notifyObservers or setState catches it: line 99 (release) is skipped,
\* and the exception leaves task() into the except clause of Skill.run
\* (skills.py:181).
CallbackRaise(s) ==
    /\ pc[s] = "set_132"
    /\ pc' = [pc EXCEPT ![s] = "error"]
    /\ ResetCall(s)
    /\ UNCHANGED <<storeVars, result, skillVars, histVars>>

\* line 132: the callback itself calls getState or setState of the same
\* store, on the thread that is notifying.  Its first statement is
\* self.mutex.acquire() (line 75 or 95) on a threading.Lock, which is not
\* reentrant: with the lock free the nested call runs and the callback
\* returns; with the lock taken the thread waits in acquire()
CallbackAccessesStore(s) ==
    /\ pc[s] = "set_132"
    /\ IF mutex = None
         THEN /\ idx' = [idx EXCEPT ![s] = @ + 1]
              /\ pc' = [pc EXCEPT ![s] = "set_131"]
         ELSE /\ pc' = [pc EXCEPT ![s] = "cb_75"]
              /\ UNCHANGED idx
    /\ UNCHANGED <<storeVars, cur, iter, result, notified, skillVars, histVars>>

\* line 99: self.mutex.release(); setState returns into the task body
SetRelease(s) ==
    /\ pc[s] = "set_99"
    /\ mutex' = None
    /\ pc' = [pc EXCEPT ![s] = "task"]
    /\ ResetCall(s)
    /\ UNCHANGED <<states, obsKeys, observers, written, lastAcq, result,
                   skillVars, histVars>>

\* ------------------------------------------- StateDataBase.registerObserver
\* (no mutex anywhere in lines 114-118)
\* a registerObserver without the test of line 114 (mutant)
RegCheckAnyKey(s) ==
    /\ pc[s] = "reg_114"
    /\ pc' = [pc EXCEPT ![s] =
                IF cur[s].key \notin obsKeys THEN "reg_116" ELSE "reg_117"]
    /\ UNCHANGED <<storeVars, callVars, skillVars, histVars>>

\* lines 114-115: if key in self.states: if key not in self.observers;
\* a key without a value ends the call
RegCheck(s) ==
    /\ pc[s] = "reg_114"
    /\ pc' = [pc EXCEPT ![s] =
                IF states[cur[s].key] = None THEN "reg_ret"
                ELSE IF cur[s].key \notin obsKeys THEN "reg_116"
                ELSE "reg_117"]
    /\ UNCHANGED <<storeVars, callVars, skillVars, histVars>>

\* line 116: self.observers[key] = [] : a new list object replaces whatever
\* the dict holds by now; a loop that iterates the replaced list keeps it
RegCreate(s) ==
    /\ pc[s] = "reg_116"
    /\ obsKeys' = obsKeys \cup {cur[s].key}
    /\ observers' = [observers EXCEPT ![cur[s].key] = <<>>]
    /\ iter' = [t \in Skills |->
                  IF /\ t # s
                     /\ pc[t] \in {"set_131", "set_132"}
                     /\ cur[t].key = cur[s].key
                     /\ iter[t].live
                    THEN DetachedIter(observers[cur[s].key])
                    ELSE iter[t]]
    /\ pc' = [pc EXCEPT ![s] = "reg_117"]
    /\ UNCHANGED <<states, mutex, written, lastAcq, cur, idx, result, notified,
                   skillVars, histVars>>

\* line 117: if observer not in self.observers[key]
RegMember(s) ==
    /\ pc[s] = "reg_117"
    /\ IF \E i \in 1..Len(observers[cur[s].key]) :
              observers[cur[s].key][i] = cur[s].obs
         THEN pc' = [pc EXCEPT ![s] = "reg_ret"]
         ELSE pc' = [pc EXCEPT ![s] = "reg_118"]
    /\ UNCHANGED <<storeVars, callVars, skillVars, histVars>>

\* line 118: self.observers[key].append(observer)
RegAppend(s) ==
    /\ pc[s] = "reg_118"
    /\ observers' = [observers EXCEPT ![cur[s].key] = Append(@, cur[s].obs)]
    /\ pc' = [pc EXCEPT ![s] = "reg_ret"]
    /\ UNCHANGED <<states, obsKeys, mutex, written, lastAcq, callVars,
                   skillVars, histVars>>

\* registerObserver returns (None) into the task body: from line 114 or 117
\* when their test fails, or after line 118
RegReturn(s) ==
    /\ pc[s] = "reg_ret"
    /\ pc' = [pc EXCEPT ![s] = "task"]
    /\ ResetCall(s)
    /\ UNCHANGED <<storeVars, result, skillVars, histVars>>

\* ------------------------------------------------------------- Skill.run
\* a run() that calls task() before its first test of the stop event, as
\* a do-while loop would (mutant)
StartRunsTask(s) ==
    /\ pc[s] = "created"
    /\ pc' = [pc EXCEPT ![s] = "task"]
    /\ ranTask' = [ranTask EXCEPT ![s] = TRUE]
    /\ UNCHANGED <<storeVars, callVars, skillVars, via, errLog, stopBeforeStart>>

\* Thread.start(): the thread enters run() and logs "skill launched"
\* (skills.py:174); next is the first test of the while condition
Start(s) ==
    /\ pc[s] = "created"
    /\ pc' = [pc EXCEPT ![s] = "check"]
    /\ via' = [via EXCEPT ![s] = "start"]
    /\ UNCHANGED <<storeVars, callVars, skillVars, ranTask, errLog, stopBeforeStart>>

\* a loop that runs the task before it looks at the stop event (mutant)
LoopCheckLate(s) ==
    /\ pc[s] = "check"
    /\ pc' = [pc EXCEPT ![s] = "task"]
    /\ ranTask' = [ranTask EXCEPT ![s] = TRUE]
    /\ via' = [via EXCEPT ![s] = "none"]
    /\ errLog' = [errLog EXCEPT ![s] = 0]
    /\ UNCHANGED <<storeVars, callVars, skillVars, stopBeforeStart>>

\* line 175: while not self.stopEvent.is_set(): enter the try block and
\* call self.task() (line 177), or leave the loop and log "skill
\* terminated" (line 183)
LoopCheck(s) ==
    /\ pc[s] = "check"
    /\ IF stopEvent[s]
         THEN /\ pc' = [pc EXCEPT ![s] = "stopped"]
              /\ UNCHANGED <<ranTask, via, errLog>>
         ELSE /\ pc' = [pc EXCEPT ![s] = "task"]
              /\ ranTask' = [ranTask EXCEPT ![s] = TRUE]
              /\ via' = [via EXCEPT ![s] = "none"]
              /\ errLog' = [errLog EXCEPT ![s] = 0]
    /\ UNCHANGED <<storeVars, callVars, skillVars, stopBeforeStart>>

\* the task body calls the store: readState/getState (skills.py:312) or
\* setState (skills.py:293 or directly) with a key of K, or
\* registerObserver (statedb.py:101) with a key of Keys
TaskCallFrom(s, K) ==
    /\ pc[s] = "task"
    /\ \/ \E k \in K :
            /\ cur' = [cur EXCEPT ![s] = GetCall(k)]
            /\ pc' = [pc EXCEPT ![s] = "get_75"]
       \/ \E k \in K, v \in Values :
            /\ cur' = [cur EXCEPT ![s] = SetCall(k, v)]
            /\ pc' = [pc EXCEPT ![s] = "set_95"]
       \/ \E k \in Keys, o \in ObserverIds :
            /\ cur' = [cur EXCEPT ![s] = RegCall(k, o)]
            /\ pc' = [pc EXCEPT ![s] = "reg_114"]
    /\ UNCHANGED <<storeVars, idx, iter, result, notified, skillVars, histVars>>

TaskCall(s) == TaskCallFrom(s, Keys)

\* the same, reading and writing every key of the store
StoreCall(s) == TaskCallFrom(s, StoreKeys)

\* the task body calls SkillWithState.updateState(stateName, stateValue)
\* (skills.py:279)
UpdateCall(s) ==
    /\ pc[s] = "task"
    /\ \E k \in StoreKeys, v \in Values :
         cur' = [cur EXCEPT ![s] = SetCall(k, v)]
    /\ pc' = [pc EXCEPT ![s] = "upd_292"]
    /\ UNCHANGED <<storeVars, idx, iter, result, notified, skillVars, histVars>>

\* the StateDataBaseObserver a skill passes when it registers itself
ObserverOf(s) == IF s = "s1" THEN "o1" ELSE "o2"

\* the task body calls SkillWithState.observeState(stateName)
\* (skills.py:265)
ObserveCall(s) ==
    /\ pc[s] = "task"
    /\ \E k \in Keys :
         cur' = [cur EXCEPT ![s] = RegCall(k, ObserverOf(s))]
    /\ pc' = [pc EXCEPT ![s] = "obs_276"]
    /\ UNCHANGED <<storeVars, idx, iter, result, notified, skillVars, histVars>>

\* SkillWithState.observeState, lines 276-277: if len(stateName) > 0:
\* self.statedb.registerCallback(...).  StateDataBase has no attribute
\* registerCallback (its method is registerObserver, statedb.py:101), so
\* line 277 raises AttributeError, which leaves task() into the except
\* clause of Skill.run (skills.py:181); with an empty name the method
\* returns
ObserveCheck(s) ==
    /\ pc[s] = "obs_276"
    /\ IF NonEmpty(cur[s].key)
         THEN pc' = [pc EXCEPT ![s] = "error"]
         ELSE pc' = [pc EXCEPT ![s] = "task"]
    /\ ResetCall(s)
    /\ UNCHANGED <<storeVars, result, skillVars, histVars>>

\* SkillWithState.updateState, line 292: if len(stateName) > 0: call
\* self.statedb.setState (line 293), else return
UpdateCheck(s) ==
    /\ pc[s] = "upd_292"
    /\ IF NonEmpty(cur[s].key)
         THEN /\ pc' = [pc EXCEPT ![s] = "set_95"]
              /\ UNCHANGED <<cur, idx, iter, notified>>
         ELSE /\ pc' = [pc EXCEPT ![s] = "task"]
              /\ ResetCall(s)
    /\ UNCHANGED <<storeVars, result, skillVars, histVars>>

\* line 177 returns, line 178: self.stopEvent.wait(self.interval) begins
TaskReturn(s) ==
    /\ pc[s] = "task"
    /\ pc' = [pc EXCEPT ![s] = "wait"]
    /\ remaining' = [remaining EXCEPT ![s] = interval[s]]
    /\ UNCHANGED <<storeVars, callVars, stopEvent, interval, errorSilent,
                   joining, appVars, histVars>>

\* line 177 raises an Exception of the task's own: line 178 is skipped,
\* control is in the except clause of line 181
TaskRaise(s) ==
    /\ pc[s] = "task"
    /\ pc' = [pc EXCEPT ![s] = "error"]
    /\ UNCHANGED <<storeVars, callVars, skillVars, histVars>>

\* lines 179-180: the task raises KeyboardInterrupt: continue
TaskInterrupt(s) ==
    /\ pc[s] = "task"
    /\ pc' = [pc EXCEPT ![s] = "check"]
    /\ via' = [via EXCEPT ![s] = "interrupt"]
    /\ UNCHANGED <<storeVars, callVars, skillVars, ranTask, errLog, stopBeforeStart>>

\* line 178, Event.wait(timeout): time passes while the event is not set
WaitTick(s) ==
    /\ pc[s] = "wait"
    /\ ~stopEvent[s]
    /\ remaining[s] > 0
    /\ remaining' = [remaining EXCEPT ![s] = @ - 1]
    /\ UNCHANGED <<storeVars, pc, callVars, stopEvent, interval, errorSilent,
                   joining, appVars, histVars>>

\* a wait that returns only when the whole interval has elapsed, as
\* time.sleep(interval) would (mutant)
WaitReturnSleep(s) ==
    /\ pc[s] = "wait"
    /\ remaining[s] = 0
    /\ pc' = [pc EXCEPT ![s] = "check"]
    /\ via' = [via EXCEPT ![s] = "wait"]
    /\ UNCHANGED <<storeVars, callVars, skillVars, ranTask, errLog, stopBeforeStart>>

\* line 178, Event.wait(timeout) returns: the event is set or the timeout
\* has elapsed; back to the while condition
WaitReturn(s) ==
    /\ pc[s] = "wait"
    /\ stopEvent[s] \/ remaining[s] = 0
    /\ pc' = [pc EXCEPT ![s] = "check"]
    /\ via' = [via EXCEPT ![s] = "wait"]
    /\ UNCHANGED <<storeVars, callVars, skillVars, ranTask, errLog, stopBeforeStart>>

\* an error handler that lets the exception end the thread (mutant)
ErrorFatal(s) ==
    /\ pc[s] = "error"
    /\ pc' = [pc EXCEPT ![s] = "stopped"]
    /\ UNCHANGED <<storeVars, callVars, skillVars, histVars>>

\* lines 181-182 with Skill.error (lines 164-165): one ERROR entry unless
\* errorSilent; then back to the while condition
Error(s) ==
    /\ pc[s] = "error"
    /\ errLog' = [errLog EXCEPT ![s] = IF errorSilent[s] THEN @ ELSE @ + 1]
    /\ pc' = [pc EXCEPT ![s] = "check"]
    /\ via' = [via EXCEPT ![s] = "error"]
    /\ UNCHANGED <<storeVars, callVars, skillVars, ranTask, stopBeforeStart>>

\* ---------------------------------------------------------- stop request
\* a stop request that flips the event, so that a second request clears it
\* (mutant)
SetStopToggle(s) ==
    /\ stopEvent' = [stopEvent EXCEPT ![s] = ~@]
    /\ stopBeforeStart' = [stopBeforeStart EXCEPT ![s] = @ \/ pc[s] = "created"]
    /\ UNCHANGED <<storeVars, pc, callVars, interval, errorSilent, remaining,
                   joining, appVars, ranTask, via, errLog>>

\* skill.stopEvent.set() (homeautomate.py:41), at any time, any number of
\* times
SetStop(s) ==
    /\ stopEvent' = [stopEvent EXCEPT ![s] = TRUE]
    /\ stopBeforeStart' = [stopBeforeStart EXCEPT ![s] = @ \/ pc[s] = "created"]
    /\ UNCHANGED <<storeVars, pc, callVars, interval, errorSilent, remaining,
                   joining, appVars, ranTask, via, errLog>>

\* ------------------------------------------------------------ Thread.join
\* skill.join() (homeautomate.py:36) on a started thread: the caller blocks
JoinCall(s) ==
    /\ joining[s] = "no"
    /\ pc[s] # "created"
    /\ joining' = [joining EXCEPT ![s] = "blocked"]
    /\ UNCHANGED <<storeVars, pc, callVars, stopEvent, interval, errorSilent,
                   remaining, appVars, histVars>>

\* join() returns once run() has returned
JoinReturn(s) ==
    /\ joining[s] = "blocked"
    /\ pc[s] = "stopped"
    /\ joining' = [joining EXCEPT ![s] = "released"]
    /\ UNCHANGED <<storeVars, pc, callVars, stopEvent, interval, errorSilent,
                   remaining, appVars, histVars>>

\* ----------------------------------------------- homeautomate.py __main__
NumSkills == Len(SkillOrder)

\* the default Skill.task (skills.py:185-193): log and set the own stop
\* event, so that the loop ends at its next test
TaskStopsItself(s) ==
    /\ pc[s] = "task"
    /\ ~stopEvent[s]
    /\ stopEvent' = [stopEvent EXCEPT ![s] = TRUE]
    /\ UNCHANGED <<storeVars, pc, callVars, interval, errorSilent, remaining,
                   joining, appVars, histVars>>

\* the thread of a skill that does not override task()
DefaultSkill == "s1"

\* a default task that only logs and returns (mutant)
DefaultTaskOnlyLogs(s) ==
    /\ s = DefaultSkill
    /\ pc[s] = "task"
    /\ pc' = [pc EXCEPT ![s] = "wait"]
    /\ remaining' = [remaining EXCEPT ![s] = interval[s]]
    /\ UNCHANGED <<storeVars, callVars, stopEvent, interval, errorSilent,
                   joining, appVars, histVars>>

\* the whole default Skill.task (skills.py:185-193) inside Skill.run:
\* line 192 logs, line 193 sets the own stop event, the task returns and
\* the wait of line 178 begins
DefaultTask(s) ==
    /\ s = DefaultSkill
    /\ pc[s] = "task"
    /\ stopEvent' = [stopEvent EXCEPT ![s] = TRUE]
    /\ pc' = [pc EXCEPT ![s] = "wait"]
    /\ remaining' = [remaining EXCEPT ![s] = interval[s]]
    /\ UNCHANGED <<storeVars, callVars, interval, errorSilent, joining,
                   appVars, histVars>>

\* lines 45-47: the try block is entered, "Starting" is printed and
\* startSkills() begins its for loop with the first skill
OrchBegin ==
    /\ orch.pc = "idle"
    /\ orch' = [orch EXCEPT !.pc = "start", !.i = 1]
    /\ UNCHANGED <<storeVars, pc, callVars, stopEvent, interval, errorSilent,
                   remaining, joining, taskVars, histVars>>

\* line 30: skill.start() of the skill the loop is at: its thread enters
\* run() (as Start does); line 31, time.sleep(10), begins
OrchStart ==
    /\ orch.pc = "start"
    /\ pc[SkillOrder[orch.i]] = "created"
    /\ pc' = [pc EXCEPT ![SkillOrder[orch.i]] = "check"]
    /\ via' = [via EXCEPT ![SkillOrder[orch.i]] = "start"]
    /\ orch' = [orch EXCEPT !.pc = "sleep", !.slept = 0]
    /\ UNCHANGED <<storeVars, callVars, stopEvent, interval, errorSilent,
                   remaining, joining, taskVars, ranTask, errLog,
                   stopBeforeStart>>

\* line 30 raises an Exception (Thread.start() raises RuntimeError when
\* the thread cannot be started): the thread does not run, control is in
\* the except clause of line 52
OrchStartFails ==
    /\ orch.pc = "start"
    /\ orch' = [orch EXCEPT !.pc = "err53", !.err = TRUE]
    /\ UNCHANGED <<storeVars, pc, callVars, stopEvent, interval, errorSilent,
                   remaining, joining, taskVars, histVars>>

\* line 31: a second of time.sleep(10) passes
OrchSleepTick ==
    /\ orch.pc = "sleep"
    /\ orch.slept < StartDelay
    /\ orch' = [orch EXCEPT !.slept = @ + 1]
    /\ UNCHANGED <<storeVars, pc, callVars, stopEvent, interval, errorSilent,
                   remaining, joining, taskVars, histVars>>

\* a sleep that may return before its time is up (mutant)
OrchSleepReturnEarly ==
    /\ orch.pc = "sleep"
    /\ IF orch.i < NumSkills
         THEN orch' = [orch EXCEPT !.pc = "start", !.i = @ + 1]
         ELSE orch' = [orch EXCEPT !.pc = "join48", !.i = 1, !.slept = 0]
    /\ UNCHANGED <<storeVars, pc, callVars, stopEvent, interval, errorSilent,
                   remaining, joining, taskVars, histVars>>

\* line 31 returns after the whole delay: the for loop of line 29 goes to
\* the next skill, or startSkills() returns and joinSkills() (line 48)
\* begins its loop
OrchSleepReturn ==
    /\ orch.pc = "sleep"
    /\ orch.slept = StartDelay
    /\ IF orch.i < NumSkills
         THEN orch' = [orch EXCEPT !.pc = "start", !.i = @ + 1]
         ELSE orch' = [orch EXCEPT !.pc = "join48", !.i = 1, !.slept = 0]
    /\ UNCHANGED <<storeVars, pc, callVars, stopEvent, interval, errorSilent,
                   remaining, joining, taskVars, histVars>>

\* line 48, joinSkills() (lines 34-36): skill.join() returns once the
\* thread has ended; after the last skill the try block is done and the
\* finally clause (line 54) begins
OrchJoin48 ==
    /\ orch.pc = "join48"
    /\ pc[SkillOrder[orch.i]] = "stopped"
    /\ IF orch.i < NumSkills
         THEN orch' = [orch EXCEPT !.i = @ + 1]
         ELSE orch' = [orch EXCEPT !.pc = "join55", !.i = 1]
    /\ UNCHANGED <<storeVars, pc, callVars, stopEvent, interval, errorSilent,
                   remaining, joining, taskVars, histVars>>

\* KeyboardInterrupt is raised in the main thread while it is inside the
\* try block (lines 46-48): control is in the except clause of line 49,
\* "terminating..." is printed and interruptSkills() begins its loop
OrchInterrupt ==
    /\ orch.pc \in {"start", "sleep", "join48"}
    /\ orch' = [orch EXCEPT !.pc = "intr51", !.i = 1, !.slept = 0, !.intr = TRUE]
    /\ UNCHANGED <<storeVars, pc, callVars, stopEvent, interval, errorSilent,
                   remaining, joining, taskVars, histVars>>

\* line 51, interruptSkills() (lines 39-41): skill.stopEvent.set() for
\* the skill the loop is at; after the last one the finally clause begins
OrchSetStop ==
    /\ orch.pc = "intr51"
    /\ stopEvent' = [stopEvent EXCEPT ![SkillOrder[orch.i]] = TRUE]
    /\ stopBeforeStart' = [stopBeforeStart EXCEPT ![SkillOrder[orch.i]] =
                             @ \/ pc[SkillOrder[orch.i]] = "created"]
    /\ IF orch.i < NumSkills
         THEN orch' = [orch EXCEPT !.i = @ + 1]
         ELSE orch' = [orch EXCEPT !.pc = "join55", !.i = 1]
    /\ UNCHANGED <<storeVars, pc, callVars, interval, errorSilent, remaining,
                   joining, taskVars, ranTask, via, errLog>>

\* lines 52-53: the except Exception clause prints "Error... " and does
\* nothing else (it does not call interruptSkills()); the finally clause
\* begins
OrchLogError ==
    /\ orch.pc = "err53"
    /\ orch' = [orch EXCEPT !.pc = "join55", !.i = 1, !.slept = 0]
    /\ UNCHANGED <<storeVars, pc, callVars, stopEvent, interval, errorSilent,
                   remaining, joining, taskVars, histVars>>

\* lines 54-56, joinSkills() in the finally clause: join() of a thread
\* that was never started raises RuntimeError, which leaves the finally
\* clause and the program before line 56; join() of a started thread
\* returns once it has ended; after the last skill "Terminated" is printed
OrchJoin55 ==
    /\ orch.pc = "join55"
    /\ IF pc[SkillOrder[orch.i]] = "created"
         THEN orch' = [orch EXCEPT !.pc = "exit_exc"]
         ELSE /\ pc[SkillOrder[orch.i]] = "stopped"
              /\ IF orch.i < NumSkills
                   THEN orch' = [orch EXCEPT !.i = @ + 1]
                   ELSE orch' = [orch EXCEPT !.pc = "exit_ok"]
    /\ UNCHANGED <<storeVars, pc, callVars, stopEvent, interval, errorSilent,
                   remaining, joining, taskVars, histVars>>

\* ------------------------------------------ HueDaytimeAndWeatherSkill.task
MODE_SLEEP == "SLEEP"
MODE_DAY_CLEAR == "DAY_CLEAR"
MODE_DAY_DARK == "DAY_DARK"
MODE_DAY_MODERATE == "DAY_MODERATE"
MODE_SUNRISE == "SUNRISE"
MODE_SUNSET == "SUNSET"
MODE_NIGHT == "NIGHT"

\* DaytimeState.options (daytimeskill.py:31-35)
DaytimeOptions == {"Day", "Sunrise", "Sunset", "Night"}

\* the cloud covers and the thresholds the decision is tried with
CloudValues == {0, 79, 80, 90, 91, 95}
MaxCloudsClearValues == {DefaultMaxCloudsClear, 100}
MinCloudsCloudyValues == {DefaultMinCloudsCloudy, 70}

HueInputs ==
    [weather : BOOLEAN, daytime : BOOLEAN, clouds : CloudValues,
     rain : BOOLEAN, state : DaytimeOptions, bedTime : BOOLEAN]

\* a day-time decision whose dark test is clouds >= minCloudsCloudy
\* (mutant)
DayModeInclusive(h, i) ==
    IF i.clouds < h.maxCloudsClear THEN MODE_DAY_CLEAR
    ELSE IF i.clouds >= h.minCloudsCloudy \/ i.rain THEN MODE_DAY_DARK
    ELSE MODE_DAY_MODERATE

\* lines 207-222, the branch of daytime.isDayTime(): the mode that
\* lastModeSet holds when the branch is left
DayMode(h, i) ==
    IF i.clouds < h.maxCloudsClear THEN MODE_DAY_CLEAR
    ELSE IF i.clouds > h.minCloudsCloudy \/ i.rain THEN MODE_DAY_DARK
    ELSE MODE_DAY_MODERATE

\* lines 191-237: the value of self.lastModeSet when task() returns.
\* Every branch sets lastModeSet to its mode unless it holds it already;
\* a missing daytime or weather state returns before any branch
HueDecide(h, i) ==
    IF ~i.daytime \/ ~i.weather THEN h.lastModeSet
    ELSE IF i.bedTime THEN MODE_SLEEP
    ELSE IF i.state = "Day" THEN DayMode(h, i)
    ELSE IF i.state = "Sunrise" THEN MODE_SUNRISE
    ELSE IF i.state = "Sunset" THEN MODE_SUNSET
    ELSE IF i.state = "Night" THEN MODE_NIGHT
    ELSE h.lastModeSet

\* one execution of HueDaytimeAndWeatherSkill.task() on what the two
\* readState calls of lines 191-192 return
HueTask ==
    /\ \E i \in HueInputs :
         hue' = [hue EXCEPT !.in = i, !.lastModeSet = HueDecide(hue, i),
                            !.ran = TRUE]
    /\ UNCHANGED <<storeVars, pc, callVars, stopEvent, interval, errorSilent,
                   remaining, joining, orch, bed, day, dev, moreVars,
                   histVars>>

\* the weather and daytime one cycle of the Hue skill may read
HueCycleInputs == {i \in HueInputs : i.clouds \in {79, 90, 95}}

\* a task that sets lastModeSet before it calls the light action (mutant)
HueCycleSetsFirst ==
    /\ \E i \in HueCycleInputs, fails \in BOOLEAN :
         LET mode == HueDecide(hue, i)
             acts == i.daytime /\ i.weather /\ mode # hue.lastModeSet
         IN  hue' = [hue EXCEPT !.in = i, !.ran = TRUE, !.acted = acts,
                                !.raised = acts /\ fails,
                                !.lastModeSet = IF acts THEN mode ELSE @]
    /\ UNCHANGED <<storeVars, pc, callVars, stopEvent, interval, errorSilent,
                   remaining, joining, orch, bed, day, dev, moreVars,
                   histVars>>

\* one cycle of task() (lines 191-237) with a light action that may
\* raise: in the branch of the mode, if not self.lastModeSet == MODE: log,
\* call the action (turnLightsOff, setScene, activate...Mode), and only
\* when it has returned self.lastModeSet = MODE; an exception leaves the
\* task before the assignment
HueCycle ==
    /\ \E i \in HueCycleInputs, fails \in BOOLEAN :
         LET mode == HueDecide(hue, i)
             acts == i.daytime /\ i.weather /\ mode # hue.lastModeSet
         IN  hue' = [hue EXCEPT !.in = i, !.ran = TRUE, !.acted = acts,
                                !.raised = acts /\ fails,
                                !.lastModeSet = IF acts /\ ~fails THEN mode
                                                ELSE @]
    /\ UNCHANGED <<storeVars, pc, callVars, stopEvent, interval, errorSilent,
                   remaining, joining, orch, bed, day, dev, moreVars,
                   histVars>>

\* ------------------------------------------------ DaytimeSkill.checkBedTime
\* datetime.time(12, 0, 0) (daytimeskill.py:134), in half hours of the day
Midday == 24

\* the datetime of half hour x of day d, in half hours
At(d, x) == d * 2 * Midday + x

\* strftime("%A") of day d, 0 for monday; day 7 is a monday
Weekday(d) == d % 7

\* the bedTime settings tried: for monday none, "23:00-07:00",
\* "22:00-23:00" or "12:00-07:00", for tuesday none or "03:00-08:00"
BedTables ==
    {<<>>} \cup
    {[w \in {0} |-> e] : e \in {<<46, 14>>, <<44, 46>>, <<24, 14>>}} \cup
    {[w \in {1} |-> <<6, 16>>]} \cup
    {[w \in {0, 1} |-> IF w = 0 THEN e ELSE <<6, 16>>] :
        e \in {<<46, 14>>, <<44, 46>>, <<24, 14>>}}

\* the days of datetime.now(): a monday, the tuesday and the wednesday
\* after it
BedDays == {7, 8, 9}

\* lines 126-164 for self.bedTime = tbl and datetime.now() = half hour t
\* of day d
CheckBedTime(tbl, d, t) ==
    LET currentDatetime == At(d, t)
        today == d
        yesterday == d - 1
        tomorrow == d + 1
        beforeMidday == currentDatetime < At(today, Midday)
        lookupday == IF beforeMidday THEN Weekday(yesterday) ELSE Weekday(today)
    IN  IF lookupday \in DOMAIN tbl
          THEN LET startTime == tbl[lookupday][1]
                   endTime == tbl[lookupday][2]
                   endAt == IF beforeMidday THEN At(today, endTime)
                            ELSE At(tomorrow, endTime)
                   startAt ==
                       IF beforeMidday
                         THEN IF startTime > Midday THEN At(yesterday, startTime)
                              ELSE At(today, startTime)
                         ELSE IF startTime > Midday THEN At(today, startTime)
                              ELSE At(tomorrow, startTime)
               IN  currentDatetime >= startAt /\ currentDatetime < endAt
          ELSE FALSE

\* one call of checkBedTime() at some half hour of some day
BedCheck ==
    /\ \E d \in BedDays, t \in 0..(2 * Midday - 1) :
         bed' = [bed EXCEPT !.d = d, !.t = t,
                            !.result = CheckBedTime(bed.table, d, t),
                            !.ran = TRUE]
    /\ UNCHANGED <<storeVars, pc, callVars, stopEvent, interval, errorSilent,
                   remaining, joining, orch, hue, day, dev, moreVars,
                   histVars>>

\* ------------------------------------------------------- DaytimeSkill.task
\* the thread of the DaytimeSkill, and the key STATE_PREFIX it uses
DaySkill == "s1"
DayKey == "k"

\* a DaytimeState with the given bedTime, as a value of the store
DaytimeStateOf(b) == IF b THEN "DaytimeState(bedTime=True)"
                     ELSE "DaytimeState(bedTime=False)"

\* a task body that calls readState(stateName) with a key of K
\* (skills.py:295-312; hueskill.py:191-192 for the daytime state)
ReadCall(s, K) ==
    /\ pc[s] = "task"
    /\ \E k \in K : cur' = [cur EXCEPT ![s] = GetCall(k)]
    /\ pc' = [pc EXCEPT ![s] = "get_75"]
    /\ UNCHANGED <<storeVars, idx, iter, result, notified, skillVars, histVars>>

\* line 177: daytimeState = self.readState(self.STATE_PREFIX)
DayRead(s) ==
    /\ s = DaySkill
    /\ pc[s] = "task"
    /\ day.step = "idle"
    /\ cur' = [cur EXCEPT ![s] = GetCall(DayKey)]
    /\ pc' = [pc EXCEPT ![s] = "get_75"]
    /\ day' = [day EXCEPT !.step = "read"]
    /\ UNCHANGED <<storeVars, idx, iter, result, notified, stopEvent, interval,
                   errorSilent, remaining, joining, orch, hue, bed, dev,
                   moreVars,
                   histVars>>

\* lines 177-183: readState returns; a None becomes a new DaytimeState();
\* bedTime = self.checkBedTime() is put into the object; getDayTime()
\* returns None (its body is pass), which setDayTime ignores (None is not
\* in options).  No statement of the task hands the object to
\* updateState
DayCompute(s) ==
    /\ s = DaySkill
    /\ pc[s] = "get_80"
    /\ day.step = "read"
    /\ \E b \in BOOLEAN :
         day' = [day EXCEPT !.step = "log", !.fresh = (result[s] = None),
                            !.bedTime = b]
    /\ pc' = [pc EXCEPT ![s] = "task"]
    /\ result' = [result EXCEPT ![s] = None]
    /\ ResetCall(s)
    /\ UNCHANGED <<storeVars, stopEvent, interval, errorSilent, remaining,
                   joining, orch, hue, bed, dev, moreVars,
                   histVars>>

\* lines 185-188: "It is " + dayTime with dayTime = None raises TypeError
\* in either branch: the task ends in the except clause of Skill.run
\* (skills.py:181)
DayLog(s) ==
    /\ s = DaySkill
    /\ pc[s] = "task"
    /\ day.step = "log"
    /\ day' = [day EXCEPT !.step = "idle", !.cycles = TRUE]
    /\ pc' = [pc EXCEPT ![s] = "error"]
    /\ UNCHANGED <<storeVars, callVars, stopEvent, interval, errorSilent,
                   remaining, joining, orch, hue, bed, dev, moreVars,
                   histVars>>

\* ------------------------------------------ DetectDevicePresenceSkill.task
\* the thread of the DetectDevicePresenceSkill
DevSkill == "s1"

\* a reference to the DevicePresenceState object of a key, as a value of
\* the store (the object itself is dev.objs[key])
DevRef == "DevicePresenceState"

\* the address the for loop of line 130 is at
Host == Addresses[dev.i]

\* DevicePresenceState.setPresence(r) at datetime.now() = n on an object
\* (devicedetectionskill.py:43-56)
SetPresence(obj, r, n) ==
    [present |-> r, last |-> IF r THEN n ELSE obj.last]

\* datetime.now() advances
DevTick ==
    /\ dev.now < MaxNow
    /\ dev' = [dev EXCEPT !.now = @ + 1]
    /\ UNCHANGED <<storeVars, pc, callVars, stopEvent, interval, errorSilent,
                   remaining, joining, orch, hue, bed, day, moreVars,
                   histVars>>

\* lines 130-136: the ping of the next host returns, result is whether
\* its exit status was 0; self.readState(STATE_PREFIX + host) is called
DevProbe(s) ==
    /\ s = DevSkill
    /\ pc[s] = "task"
    /\ dev.step = "probe"
    /\ \E r \in BOOLEAN :
         dev' = [dev EXCEPT !.result[Host] = r, !.everOk[Host] = @ \/ r,
                            !.step = "read"]
    /\ cur' = [cur EXCEPT ![s] = GetCall(Host)]
    /\ pc' = [pc EXCEPT ![s] = "get_75"]
    /\ UNCHANGED <<storeVars, idx, iter, result, notified, stopEvent, interval,
                   errorSilent, remaining, joining, orch, hue, bed, day,
                   moreVars,
                   histVars>>

\* a task that hands the ping result, not the state object, to
\* updateState, as line 128 of skills/devicedetectionskill.py does
\* (mutant)
DevHoldStoresResult(s) ==
    /\ s = DevSkill
    /\ pc[s] = "get_80"
    /\ dev.step = "read"
    /\ dev' = [dev EXCEPT !.step = "update"]
    /\ cur' = [cur EXCEPT ![s] =
                 SetCall(Host, IF dev.result[Host] THEN "True" ELSE "False")]
    /\ pc' = [pc EXCEPT ![s] = "upd_292"]
    /\ result' = [result EXCEPT ![s] = None]
    /\ UNCHANGED <<storeVars, idx, iter, notified, stopEvent, interval,
                   errorSilent, remaining, joining, orch, hue, bed, day,
                   moreVars,
                   histVars>>

\* lines 136-141: readState returns; a None becomes a new
\* DevicePresenceState(host, result) (lastDetectedAt None, then
\* setPresence), any other value is the stored object, on which
\* setPresence(result) is called in place; then
\* self.updateState(STATE_PREFIX + host, deviceState) is called
DevHold(s) ==
    /\ s = DevSkill
    /\ pc[s] = "get_80"
    /\ dev.step = "read"
    /\ dev' = [dev EXCEPT
                 !.objs[Host] =
                     IF result[s] = None
                       THEN SetPresence(NoDevice, dev.result[Host], dev.now)
                       ELSE SetPresence(@, dev.result[Host], dev.now),
                 !.step = "update"]
    /\ cur' = [cur EXCEPT ![s] = SetCall(Host, DevRef)]
    /\ pc' = [pc EXCEPT ![s] = "upd_292"]
    /\ result' = [result EXCEPT ![s] = None]
    /\ UNCHANGED <<storeVars, idx, iter, notified, stopEvent, interval,
                   errorSilent, remaining, joining, orch, hue, bed, day,
                   moreVars,
                   histVars>>

\* lines 142-145: updateState has returned, the result is logged and the
\* for loop goes to the next host or ends
DevLog(s) ==
    /\ s = DevSkill
    /\ pc[s] = "task"
    /\ dev.step = "update"
    /\ dev' = [dev EXCEPT !.i = IF dev.i < Len(Addresses) THEN @ + 1 ELSE @,
                          !.step = IF dev.i < Len(Addresses) THEN "probe"
                                   ELSE "done"]
    /\ UNCHANGED <<storeVars, pc, callVars, stopEvent, interval, errorSilent,
                   remaining, joining, orch, hue, bed, day, moreVars,
                   histVars>>

\* the for loop is exhausted: task() returns into Skill.run, whose wait
\* (skills.py:178) begins
DevCycleEnd(s) ==
    /\ s = DevSkill
    /\ pc[s] = "task"
    /\ dev.step = "done"
    /\ dev' = [dev EXCEPT !.i = 1, !.step = "probe"]
    /\ pc' = [pc EXCEPT ![s] = "wait"]
    /\ remaining' = [remaining EXCEPT ![s] = interval[s]]
    /\ UNCHANGED <<storeVars, callVars, stopEvent, interval, errorSilent,
                   joining, orch, hue, bed, day, moreVars,
                   histVars>>

\* -------------------------------------------------- RaumfeldTVWakeup.task
\* the thread of the RaumfeldTVWakeup skill, and the key
\* STATE_PREFIX + tvAddress it reads
TvSkill == "s2"
TvKey == "k"

\* the variables no step of the RaumfeldTVWakeup task touches
TvFrame ==
    UNCHANGED <<stopEvent, interval, errorSilent, joining, orch, hue, bed,
                day, dev, twin, histVars>>

\* line 85: tvState = self.readState(self.STATE_PREFIX + self.tvAddress)
TvRead(s) ==
    /\ s = TvSkill
    /\ pc[s] = "task"
    /\ tv.step = "idle"
    /\ tv' = [tv EXCEPT !.step = "read", !.read = "none", !.tried = FALSE,
                        !.woke = FALSE]
    /\ cur' = [cur EXCEPT ![s] = GetCall(TvKey)]
    /\ pc' = [pc EXCEPT ![s] = "get_75"]
    /\ UNCHANGED <<storeVars, idx, iter, result, notified, remaining>>
    /\ TvFrame

\* lines 85-96: readState returns.  None: nothing to do.  Otherwise
\* tvState is the stored DevicePresenceState object and its
\* currentlyPresent is read now: present and not alreadyAwake goes on to
\* wakeup (line 90), not present clears alreadyAwake (lines 93-95)
TvDecide(s) ==
    /\ s = TvSkill
    /\ pc[s] = "get_80"
    /\ tv.step = "read"
    /\ tv' = IF result[s] = None
               THEN [tv EXCEPT !.read = "absent", !.step = "done"]
             ELSE IF dev.objs[TvKey].present
               THEN [tv EXCEPT !.read = "present",
                               !.tried = ~tv.alreadyAwake,
                               !.step = IF tv.alreadyAwake THEN "done"
                                        ELSE "wakeup"]
             ELSE [tv EXCEPT !.read = "away", !.alreadyAwake = FALSE,
                             !.armed = TRUE, !.step = "done"]
    /\ pc' = [pc EXCEPT ![s] = "task"]
    /\ result' = [result EXCEPT ![s] = None]
    /\ ResetCall(s)
    /\ UNCHANGED <<storeVars, remaining>>
    /\ TvFrame

\* a wakeup after which alreadyAwake is not set (mutant)
TvWakeupReturnForgets(s) ==
    /\ s = TvSkill
    /\ pc[s] = "task"
    /\ tv.step = "wakeup"
    /\ tv' = [tv EXCEPT !.woke = TRUE, !.armed = FALSE, !.step = "done"]
    /\ UNCHANGED <<storeVars, pc, callVars, remaining>>
    /\ TvFrame

\* lines 90-92: self.wakeup(self.speaker) (lines 76-79) returns, then
\* self.alreadyAwake = True and the log
TvWakeupReturn(s) ==
    /\ s = TvSkill
    /\ pc[s] = "task"
    /\ tv.step = "wakeup"
    /\ tv' = [tv EXCEPT !.alreadyAwake = TRUE, !.woke = TRUE,
                        !.armed = FALSE, !.step = "done"]
    /\ UNCHANGED <<storeVars, pc, callVars, remaining>>
    /\ TvFrame

\* line 90: wakeup raises (no room of that name, the speaker does not
\* answer): line 91 is not reached and the task ends in the except
\* clause of Skill.run (skills.py:181)
TvWakeupRaise(s) ==
    /\ s = TvSkill
    /\ pc[s] = "task"
    /\ tv.step = "wakeup"
    /\ tv' = [tv EXCEPT !.step = "idle"]
    /\ pc' = [pc EXCEPT ![s] = "error"]
    /\ UNCHANGED <<storeVars, callVars, remaining>>
    /\ TvFrame

\* task() returns into Skill.run, whose wait (skills.py:178) begins
TvTaskEnd(s) ==
    /\ s = TvSkill
    /\ pc[s] = "task"
    /\ tv.step = "done"
    /\ tv' = [tv EXCEPT !.step = "idle"]
    /\ pc' = [pc EXCEPT ![s] = "wait"]
    /\ remaining' = [remaining EXCEPT ![s] = interval[s]]
    /\ UNCHANGED <<storeVars, callVars>>
    /\ TvFrame

\* ------------------------------------------- two StateDataBase instances
Instances == {"A", "B"}

\* self.states of instance i: the content of the dict object it refers to
StatesOf(i) == twin.heap[twin.states[i]]

\* the variables no operation on the two instances touches
TwinFrame ==
    UNCHANGED <<storeVars, pc, callVars, stopEvent, interval, errorSilent,
                remaining, joining, orch, hue, bed, day, dev, tv, histVars>>

\* setState(k, v) on instance i (statedb.py:82-99), from acquire to
\* release: a non-empty key is stored in the dict self.states refers to
\* and the observers of the key in self.observers are called
TwinSetState(i, k, v) ==
    /\ twin' = [twin EXCEPT
                  !.heap = IF NonEmpty(k)
                             THEN [@ EXCEPT ![twin.states[i]][k] = v]
                             ELSE @,
                  !.op = <<"set", i, k, v>>,
                  !.ret = IF k = "k" THEN twin.observers[i] ELSE <<>>]
    /\ TwinFrame

\* getState(k) on instance i (statedb.py:61-80): the value under the key
\* in the dict self.states refers to, None without one
TwinGetState(i, k) ==
    /\ twin' = [twin EXCEPT !.op = <<"get", i, k>>,
                            !.ret = <<StatesOf(i)[k]>>]
    /\ TwinFrame

\* registerObserver(k, o) on instance i (statedb.py:101-118): if the key
\* is in self.states, the observer is appended to the list of the key in
\* self.observers unless it is in it
TwinRegisterObserver(i, k, o) ==
    /\ twin' = [twin EXCEPT
                  !.observers[i] =
                      IF StatesOf(i)[k] # None /\ o \notin Members(@)
                        THEN Append(@, o) ELSE @,
                  !.op = <<"reg", i, k, o>>,
                  !.ret = <<>>]
    /\ TwinFrame

\* ------------------------------------------------------------------- Next
Next ==
    \E s \in Skills :
        \/ Start(s)
        \/ LoopCheck(s)
        \/ TaskCall(s)
        \/ TaskReturn(s)
        \/ TaskRaise(s)
        \/ TaskInterrupt(s)
        \/ WaitTick(s)
        \/ WaitReturn(s)
        \/ Error(s)
        \/ SetStop(s)
        \/ GetAcquire(s)
        \/ GetBody(s)
        \/ GetReturn(s)
        \/ SetAcquire(s)
        \/ SetWrite(s)
        \/ NotifyLookup(s)
        \/ NotifyNext(s)
        \/ CallbackReturn(s)
        \/ CallbackRaise(s)
        \/ SetRelease(s)
        \/ RegCheck(s)
        \/ RegCreate(s)
        \/ RegMember(s)
        \/ RegAppend(s)
        \/ RegReturn(s)

Spec == Init /\ [][Next]_vars

\* ------------------------------------------------ the life cycle of skills
\* The run loop with task bodies that end (they return, raise or are
\* interrupted) and the caller of join(); the store is left out.
LifeNext ==
    \E s \in Skills :
        \/ Start(s)
        \/ LoopCheck(s)
        \/ TaskReturn(s)
        \/ TaskRaise(s)
        \/ TaskInterrupt(s)
        \/ WaitTick(s)
        \/ WaitReturn(s)
        \/ Error(s)
        \/ SetStop(s)
        \/ JoinCall(s)
        \/ JoinReturn(s)

\* a started thread is scheduled again and again, its task body ends, its
\* Event.wait returns, and a join() whose thread has ended returns
LifeFairness ==
    \A s \in Skills :
        /\ WF_vars(LoopCheck(s))
        /\ WF_vars(TaskReturn(s) \/ TaskRaise(s) \/ TaskInterrupt(s))
        /\ WF_vars(WaitTick(s) \/ WaitReturn(s))
        /\ WF_vars(Error(s))
        /\ WF_vars(JoinReturn(s))

LifeSpec == Init /\ [][LifeNext]_vars /\ LifeFairness

\* --------------------------------------------- the store and its clients
\* Two started skills whose task bodies go on calling the store: they read
\* and write two non-empty keys and the empty key and register observers on
\* the first key and the empty key; no stop request, and a task body ends
\* only by the exception of an observer.
StoreInit == Init /\ interval = [s \in Skills |-> 0]

StoreNext ==
    \E s \in Skills :
        \/ Start(s)
        \/ LoopCheck(s)
        \/ StoreCall(s)
        \/ UpdateCall(s)
        \/ UpdateCheck(s)
        \/ ObserveCall(s)
        \/ ObserveCheck(s)
        \/ Error(s)
        \/ GetAcquire(s)
        \/ GetBody(s)
        \/ GetReturn(s)
        \/ SetAcquire(s)
        \/ SetWrite(s)
        \/ NotifyLookup(s)
        \/ NotifyNext(s)
        \/ CallbackReturn(s)
        \/ CallbackRaise(s)
        \/ CallbackAccessesStore(s)
        \/ SetRelease(s)
        \/ RegCheck(s)
        \/ RegCreate(s)
        \/ RegMember(s)
        \/ RegAppend(s)
        \/ RegReturn(s)

StoreSpec == StoreInit /\ [][StoreNext]_vars

\* the Hue skill with every setting of its two thresholds, its task run
\* on every weather and daytime
HueInit ==
    /\ InitCore
    /\ interval = [s \in Skills |-> 0]
    /\ orch = OrchIdle /\ bed = BedIdle /\ day = DayIdle /\ dev = DevIdle
    /\ tv = TvIdle /\ twin = TwinIdle
    /\ \E a \in MaxCloudsClearValues, b \in MinCloudsCloudyValues :
         hue = [HueIdle EXCEPT !.maxCloudsClear = a, !.minCloudsCloudy = b]

HueNext == HueTask

HueSpec == HueInit /\ [][HueNext]_vars

\* the Hue skill with its default thresholds over any sequence of cycles
HueActNext == HueCycle

HueActSpec == StoreInit /\ [][HueActNext]_vars

\* checkBedTime with every bedTime setting of BedTables, called at every
\* half hour of three days
BedInit ==
    /\ InitCore
    /\ interval = [s \in Skills |-> 0]
    /\ orch = OrchIdle /\ hue = HueIdle /\ day = DayIdle /\ dev = DevIdle
    /\ tv = TvIdle /\ twin = TwinIdle
    /\ \E tbl \in BedTables : bed = [BedIdle EXCEPT !.table = tbl]

BedNext == BedCheck

BedSpec == BedInit /\ [][BedNext]_vars

\* the DaytimeSkill running its task, and a second skill that reads the
\* daytime state as the Hue skill does
DayNext ==
    \/ \E s \in Skills :
         \/ Start(s)
         \/ LoopCheck(s)
         \/ Error(s)
         \/ GetAcquire(s)
         \/ GetBody(s)
         \/ DayRead(s)
         \/ DayCompute(s)
         \/ DayLog(s)
         \/ SetStop(s)
    \/ \E s \in Skills \ {DaySkill} :
         \/ ReadCall(s, {DayKey})
         \/ GetReturn(s)
         \/ TaskReturn(s)
         \/ WaitReturn(s)

DaySpec == StoreInit /\ [][DayNext]_vars

\* the DetectDevicePresenceSkill running its task on two addresses, and
\* a second skill that reads the device states; nothing observes them
DevNext ==
    \/ DevTick
    \/ \E s \in Skills :
         \/ Start(s)
         \/ LoopCheck(s)
         \/ WaitReturn(s)
         \/ SetStop(s)
         \/ GetAcquire(s)
         \/ GetBody(s)
         \/ UpdateCheck(s)
         \/ SetAcquire(s)
         \/ SetWrite(s)
         \/ NotifyLookup(s)
         \/ SetRelease(s)
         \/ DevProbe(s)
         \/ DevHold(s)
         \/ DevLog(s)
         \/ DevCycleEnd(s)
    \/ \E s \in Skills \ {DevSkill} :
         \/ ReadCall(s, Members(Addresses))
         \/ GetReturn(s)
         \/ TaskReturn(s)

DevSpec == StoreInit /\ [][DevNext]_vars

\* a skill with the default task beside a skill with a task of its own;
\* stop requests come for the second skill only
DefaultNext ==
    \/ \E s \in Skills :
         \/ Start(s)
         \/ LoopCheck(s)
         \/ DefaultTask(s)
         \/ WaitReturn(s)
    \/ \E s \in Skills \ {DefaultSkill} :
         \/ TaskReturn(s)
         \/ TaskRaise(s)
         \/ WaitTick(s)
         \/ Error(s)
         \/ SetStop(s)

\* a started thread is scheduled again and again, its task body ends and
\* its Event.wait returns
DefaultFairness ==
    /\ WF_vars(LoopCheck(DefaultSkill))
    /\ WF_vars(DefaultTask(DefaultSkill))
    /\ WF_vars(WaitReturn(DefaultSkill))

DefaultSpec == Init /\ [][DefaultNext]_vars /\ DefaultFairness

\* the RaumfeldTVWakeup skill reading the state of the TV that the
\* DetectDevicePresenceSkill writes in its own cycles
TvNext ==
    \E s \in Skills :
        \/ Start(s)
        \/ LoopCheck(s)
        \/ WaitReturn(s)
        \/ Error(s)
        \/ SetStop(s)
        \/ GetAcquire(s)
        \/ GetBody(s)
        \/ UpdateCheck(s)
        \/ SetAcquire(s)
        \/ SetWrite(s)
        \/ NotifyLookup(s)
        \/ SetRelease(s)
        \/ DevProbe(s)
        \/ DevHold(s)
        \/ DevLog(s)
        \/ DevCycleEnd(s)
        \/ TvRead(s)
        \/ TvDecide(s)
        \/ TvWakeupReturn(s)
        \/ TvWakeupRaise(s)
        \/ TvTaskEnd(s)

TvSpec == StoreInit /\ [][TvNext]_vars

\* two instances made by StateDataBase() with no argument, and any
\* sequence of calls on them; observers are registered for key "k"
TwinNext ==
    \E i \in Instances :
        \/ \E k \in StoreKeys, v \in Values : TwinSetState(i, k, v)
        \/ \E k \in StoreKeys : TwinGetState(i, k)
        \/ \E o \in ObserverIds : TwinRegisterObserver(i, "k", o)

TwinSpec == StoreInit /\ [][TwinNext]_vars

\* the main thread of homeautomate.py with the skill threads it starts;
\* the skills' tasks return, raise or end the skill, and do not call the
\* store
OrchNext ==
    \/ OrchBegin
    \/ OrchStart
    \/ OrchStartFails
    \/ OrchSleepTick
    \/ OrchSleepReturn
    \/ OrchJoin48
    \/ OrchInterrupt
    \/ OrchSetStop
    \/ OrchLogError
    \/ OrchJoin55
    \/ \E s \in Skills :
         \/ LoopCheck(s)
         \/ TaskStopsItself(s)
         \/ TaskReturn(s)
         \/ TaskRaise(s)
         \/ WaitTick(s)
         \/ WaitReturn(s)
         \/ Error(s)

OrchSpec == Init /\ [][OrchNext]_vars

\* ======================================================== the properties
\* the positions at which a thread waits in mutex.acquire()
AcquirePoints == {"get_75", "set_95"}
\* the positions of setState after the write of line 97
AfterWrite == {"set_130", "set_131", "set_132"}

\* C1: write+notify is atomic.  While a thread is between the write of
\* setState(k, v) and the end of its notification loop, the stored value of
\* k is still v, no other thread is inside getState or setState, and every
\* observer callback made by the call so far was passed exactly (k, v).
C1_WriteNotifyAtomic ==
    \A s \in Skills :
        pc[s] \in AfterWrite =>
            /\ states[cur[s].key] = cur[s].val
            /\ \A t \in Skills \ {s} : ~InStoreCall(t)
            /\ \A i \in 1..Len(notified[s]) :
                   /\ notified[s][i][2] = cur[s].key
                   /\ notified[s][i][3] = cur[s].val

\* C1 witness: a thread is inside an observer callback of its setState while
\* the other thread waits at the lock to write another value to the same key
C1_Witness ==
    \E s, t \in Skills :
        /\ s # t
        /\ pc[s] = "set_132"
        /\ pc[t] = "set_95"
        /\ cur[t].key = cur[s].key
        /\ cur[t].val # cur[s].val

\* C2: every access to the store is under its lock, registerObserver
\* included: while some thread is inside the critical section of getState
\* or setState, no step changes the observers of any key.
C2_RegisterUnderLock ==
    [][(\E s \in Skills : InStoreCall(s)) =>
          (observers' = observers /\ obsKeys' = obsKeys)]_vars

\* C3: a skill whose observer raised inside setState goes on to complete
\* further cycles that access the store: it is never left waiting in
\* mutex.acquire() for the lock that its own failed setState still holds.
C3_FailedSkillAccessesStoreAgain ==
    \A s \in Skills : pc[s] \in AcquirePoints => mutex # s

\* C4: a failing cycle of one skill does not keep the other skills from
\* their store reads and writes: a skill waits in mutex.acquire() only for
\* a skill that is still executing the store call that took the lock.
C4_OtherSkillsUnaffected ==
    \A s, t \in Skills :
        (s # t /\ pc[t] \in AcquirePoints /\ mutex = s) => InStoreCall(s)

\* C5: getState never blocks beyond the critical section: whenever no
\* thread is executing a store operation, a thread calling getState can
\* take the lock (and so returns the stored value or None).
C5_GetStateReturns ==
    \A s \in Skills :
        (pc[s] = "get_75" /\ \A t \in Skills : ~InStoreCall(t)) =>
            ENABLED GetAcquire(s)

\* C6: task failures never end the run loop, and each failed cycle yields
\* exactly one ERROR entry unless errorSilent: a skill is stopped only with
\* its stop event set, and back at the loop top the number of ERROR entries
\* printed since task() was invoked is 1 after a failure (0 if errorSilent)
\* and 0 otherwise.
C6_FailingSkillKeepsRunning ==
    \A s \in Skills :
        /\ pc[s] = "stopped" => stopEvent[s]
        /\ errLog[s] =
              IF via[s] = "error" /\ ~errorSilent[s] THEN 1 ELSE 0

\* C6 witness: a skill whose task failed has logged the error once and is
\* at the loop top, not stopped and about to run its task again
C6_Witness ==
    \E s \in Skills :
        /\ pc[s] = "check"
        /\ via[s] = "error"
        /\ errLog[s] = 1
        /\ ~stopEvent[s]

\* C7: after a failed cycle the next task() begins only after the interval
\* wait: task() is never invoked from a loop top that was reached from the
\* error handler.
C7_WaitAfterFailure ==
    [][\A s \in Skills :
          (pc[s] = "check" /\ pc'[s] = "task") => via[s] # "error"]_vars

\* C8: a skill stops only at the loop top with its stop event set: the
\* step into Stopped is a while test that saw the event set (never a step
\* out of a running task body, the wait or the error handler), a loop top
\* that sees the event set does not invoke task(), and nothing follows
\* Stopped.
C8_StopOnlyAtLoopTop ==
    [][\A s \in Skills :
          /\ (pc'[s] = "stopped" /\ pc[s] # "stopped") =>
                 (pc[s] = "check" /\ stopEvent[s])
          /\ (pc[s] = "check" /\ stopEvent[s]) => pc'[s] \in {"check", "stopped"}
          /\ pc[s] = "stopped" => pc'[s] = "stopped"]_vars

\* C8 witness: a skill that has run its task is stopped
C8_Witness ==
    \E s \in Skills : pc[s] = "stopped" /\ ranTask[s]

\* C9: a stop request during the interval wait ends the wait early: while
\* the skill waits with its stop event set the wait can return at once
\* whatever is left of the interval, no more of the interval elapses, and
\* from there the skill goes to the loop top and to Stopped without running
\* task() again.
C9_StopInterruptsWait ==
    /\ [](\A s \in Skills :
            (pc[s] = "wait" /\ stopEvent[s]) => ENABLED WaitReturn(s))
    /\ [][\A s \in Skills :
            /\ (pc[s] = "wait" /\ stopEvent[s]) =>
                   (remaining'[s] = remaining[s] /\ pc'[s] \in {"wait", "check"})
            /\ (pc[s] = "check" /\ via[s] = "wait" /\ stopEvent[s]) =>
                   pc'[s] \in {"check", "stopped"}]_vars

\* C9 witness: a skill is stopped, having come from a wait that still had
\* time left
C9_Witness ==
    \E s \in Skills :
        pc[s] = "stopped" /\ via[s] = "wait" /\ remaining[s] > 0

\* C10: a skill whose stop event was set before start() never invokes
\* task(): it is not started yet, at its first loop test, or stopped; and
\* the event stays set however often it is set again.
C10_StopBeforeStart ==
    \A s \in Skills :
        stopBeforeStart[s] =>
            /\ stopEvent[s]
            /\ ~ranTask[s]
            /\ pc[s] \in {"created", "check", "stopped"}
            /\ pc[s] = "check" => via[s] = "start"

\* C10 witness: a skill whose stop event was set before start() has been
\* started and is stopped
C10_Witness ==
    \E s \in Skills : stopBeforeStart[s] /\ pc[s] = "stopped"

\* C11: termination on stop.  With task bodies that end, a started skill
\* whose stop event is set eventually reaches Stopped, wherever the request
\* found it (task, error handler, wait, loop top), and a caller blocked in
\* join() on a skill whose stop event is set is eventually released.
C11_TerminationOnStop ==
    \A s \in Skills :
        /\ (stopEvent[s] /\ pc[s] # "created") ~> (pc[s] = "stopped")
        /\ (stopEvent[s] /\ joining[s] = "blocked") ~> (joining[s] = "released")

\* C11 witness: the caller of join() has been released by a skill that went
\* from its error handler to the loop top and stopped there
C11_Witness ==
    \E s \in Skills :
        joining[s] = "released" /\ pc[s] = "stopped" /\ via[s] = "error"

\* C12: each cycle is one task() followed by one wait of the interval:
\* task() is invoked only from a loop top reached by start() or from the
\* wait, and a wait of interval 0 has nothing left to wait for.
C12_OneTaskOneWaitPerCycle ==
    /\ [](\A s \in Skills :
            (pc[s] = "wait" /\ interval[s] = 0) => remaining[s] = 0)
    /\ [][\A s \in Skills :
            (pc[s] = "check" /\ pc'[s] = "task") =>
                via[s] \in {"start", "wait"}]_vars

\* C13: Stopped is terminal and the stop event is never cleared: no step
\* of any thread (stop requests, store calls of other skills) moves a
\* stopped skill or lets it run task(), and a set stop event stays set.
C13_StoppedIsTerminal ==
    [][\A s \in Skills :
          /\ pc[s] = "stopped" =>
                 (pc'[s] = "stopped" /\ ranTask'[s] = ranTask[s])
          /\ stopEvent[s] => stopEvent'[s]]_vars

\* C13 witness: a skill that ran its task is stopped while the other skill
\* is in the middle of a store write
C13_Witness ==
    \E s, t \in Skills :
        /\ pc[s] = "stopped"
        /\ ranTask[s]
        /\ pc[t] \in AfterWrite

\* no observer occurs twice in list l
NoDuplicates(l) == \A i, j \in 1..Len(l) : i # j => l[i] # l[j]
\* the observers called so far by the setState of thread s, in call order
Called(s) == [i \in 1..Len(notified[s]) |-> notified[s][i][1]]

\* C14: registerObserver on a key without a value is a no-op.  A key that
\* has no value has no observer list and no observers; the call that finds
\* its key without a value goes straight to its return, and neither that
\* step nor the return changes the observers of any key.
C14_RegisterOnAbsentKeyIsNoOp ==
    /\ [](\A k \in StoreKeys :
            states[k] = None => (k \notin obsKeys /\ observers[k] = <<>>))
    /\ [][\A s \in Skills :
            /\ (pc[s] = "reg_114" /\ states[cur[s].key] = None
                   /\ pc'[s] # pc[s]) =>
                  (pc'[s] = "reg_ret" /\ observers' = observers
                     /\ obsKeys' = obsKeys)
            /\ (pc[s] = "reg_ret" /\ pc'[s] # pc[s]) =>
                  (pc'[s] = "task" /\ observers' = observers
                     /\ obsKeys' = obsKeys)]_vars

\* C14 witness: the registerObserver("k", o) of one thread found no value
\* and is returning, and the setState on "k" of the other thread, which
\* wrote after that, has finished its notification without calling anyone
C14_Witness ==
    \E s, t \in Skills :
        /\ pc[s] = "reg_ret" /\ cur[s].key = "k"
        /\ pc[t] = "set_99" /\ cur[t].key = "k"
        /\ notified[t] = <<>>
        /\ obsKeys = {}

\* C15: registration is idempotent: no observer list ever holds an observer
\* twice, and no setState calls an observer twice.
C15_RegistrationIdempotent ==
    /\ \A k \in StoreKeys : NoDuplicates(observers[k])
    /\ \A s \in Skills : NoDuplicates(Called(s))

\* list l is an initial part of list m
IsPrefix(l, m) ==
    /\ Len(l) <= Len(m)
    /\ \A i \in 1..Len(l) : l[i] = m[i]

\* C16: a setState on a non-empty key calls the observers registered on the
\* key, each once, in registration order, and observers are never removed:
\* when the call leaves its notification loop (the list is exhausted, or a
\* callback raised) the observers it has called are exactly the list of the
\* key, and every step leaves each observer list an initial part of what
\* it is afterwards.
C16_NotifyAllInOrder ==
    [][/\ \A s \in Skills :
            (pc[s] \in {"set_131", "set_132"}
               /\ pc'[s] \notin {"set_131", "set_132"}) =>
                  Called(s) = observers[cur[s].key]
       /\ \A k \in StoreKeys : IsPrefix(observers[k], observers'[k])]_vars

\* C17: last write wins.  The value a getState(k) reads is the value of the
\* setState(k, .) call that took the lock last (that call is complete, for
\* the reader holds the lock), whatever was written to k before and to
\* other keys since; and the write of a setState changes the value of its
\* own key only.
C17_LastWriteWins ==
    [][\A s \in Skills :
          /\ (pc[s] = "get_76" /\ pc'[s] = "get_80") =>
                 result'[s] = lastAcq[cur[s].key]
          /\ (pc[s] = "set_96" /\ pc'[s] = "set_130") =>
                 /\ states'[cur[s].key] = cur[s].val
                 /\ \A k \in StoreKeys \ {cur[s].key} :
                        states'[k] = states[k]]_vars

\* C17 witness: a getState("k") returns "v2" while the other key holds the
\* other value
C17_Witness ==
    \E s \in Skills :
        /\ pc[s] = "get_80"
        /\ cur[s].key = "k"
        /\ result[s] = "v2"
        /\ states["k2"] = "v1"

\* C18: a key that was never written has no value, and a getState of it
\* returns None, whatever was written to other keys and whoever called
\* registerObserver on it.
C18_NeverWrittenIsAbsent ==
    /\ \A k \in StoreKeys \ written : states[k] = None
    /\ \A s \in Skills :
          (pc[s] = "get_80" /\ cur[s].key \notin written) => result[s] = None

\* C18 witness: a getState("k") returns while "k" has never been written,
\* the other key has been, and the other thread is returning from a
\* registerObserver on "k"
C18_Witness ==
    \E s, t \in Skills :
        /\ pc[s] = "get_80" /\ cur[s].key = "k"
        /\ "k" \notin written /\ "k2" \in written
        /\ pc[t] = "reg_ret" /\ cur[t].key = "k"

\* C19: concurrent writes of one key are serialized.  A setState that has
\* written a non-empty key and is still in its call is the one that took
\* the lock last on that key, and the key holds its value; when no setState
\* on a key is in progress the key holds the value of the call that took
\* the lock last; and a setState whose notification loop has walked the
\* list of the key to its end has passed that value to every observer of
\* the key.
C19_ConcurrentWritesSerialized ==
    /\ [](\A s \in Skills :
            (pc[s] \in SetSection \ {"set_96"} /\ NonEmpty(cur[s].key)) =>
                /\ lastAcq[cur[s].key] = cur[s].val
                /\ states[cur[s].key] = cur[s].val)
    /\ [](\A k \in StoreKeys :
            (/\ lastAcq[k] # None
             /\ \A s \in Skills : ~(pc[s] \in SetSection /\ cur[s].key = k)) =>
                states[k] = lastAcq[k])
    /\ [][\A s \in Skills :
            (pc[s] = "set_131" /\ pc'[s] = "set_99" /\ iter[s].live) =>
                \A o \in Members(observers[cur[s].key]) :
                    \E i \in 1..Len(notified[s]) :
                        notified[s][i] =
                            <<o, cur[s].key, lastAcq[cur[s].key]>>]_vars

\* C19 witness: one thread has notified an observer of "k" and is about to
\* return from its setState while the other thread waits at the lock to
\* write the other value to "k"
C19_Witness ==
    \E s, t \in Skills :
        /\ pc[s] = "set_99" /\ cur[s].key = "k" /\ Len(notified[s]) > 0
        /\ pc[t] = "set_95" /\ cur[t].key = "k"
        /\ cur[t].val # cur[s].val

\* C20: setState with the empty key is a no-op: inside the lock it goes
\* from the test of line 96 straight to the release, calls no observer,
\* changes no state and no observer list, and returns with the lock free;
\* nothing is ever stored or registered under the empty key; and
\* updateState with an empty name returns without a store call.
C20_EmptyKeyIsNoOp ==
    /\ [](/\ states[""] = None
          /\ observers[""] = <<>>
          /\ \A s \in Skills :
                (pc[s] \in SetSection /\ ~NonEmpty(cur[s].key)) =>
                    (pc[s] \in {"set_96", "set_99"} /\ notified[s] = <<>>))
    /\ [][\A s \in Skills :
            (/\ pc[s] \in {"set_96", "set_99", "upd_292"}
             /\ ~NonEmpty(cur[s].key)
             /\ pc'[s] # pc[s]) =>
                /\ states' = states
                /\ observers' = observers
                /\ obsKeys' = obsKeys
                /\ pc[s] = "set_96" => pc'[s] = "set_99"
                /\ pc[s] = "set_99" => (pc'[s] = "task" /\ mutex' = None)
                /\ pc[s] = "upd_292" => (pc'[s] = "task" /\ mutex' = mutex)]_vars

\* C20 witness: a setState with the empty key is about to release the lock
\* in a store that holds a value and an observer
C20_Witness ==
    \E s \in Skills :
        /\ pc[s] = "set_99" /\ cur[s].key = ""
        /\ states["k"] # None
        /\ observers["k"] # <<>>

\* --------------------------------------------------------- the orchestrator
\* the skills whose threads have been started
Started == {s \in Skills : pc[s] # "created"}

\* C21: once KeyboardInterrupt has been raised in the main thread, whatever
\* the point of the start-up or of the joining it arrived at, the program
\* does not end by an exception in place of printing "Terminated"; when
\* the joining of the shutdown begins the stop event of every skill of the
\* list is set, and at the exit every started skill has stopped
C21_InterruptStopsJoinsThenExits ==
    orch.intr =>
        /\ orch.pc # "exit_exc"
        /\ orch.pc \in {"join55", "exit_ok"} => \A s \in Skills : stopEvent[s]
        /\ orch.pc = "exit_ok" => \A s \in Started : pc[s] = "stopped"

\* C22: after an Exception other than KeyboardInterrupt was raised while
\* the skills were being started, the shutdown joins the skills and the
\* program ends by printing "Terminated", not by a second exception
C22_ErrorThenJoinAllThenExit ==
    orch.err =>
        /\ orch.pc # "exit_exc"
        /\ orch.pc = "exit_ok" => \A s \in Started : pc[s] = "stopped"

\* C23: the skills are started one at a time in list order, each one after
\* the one before it in the list has been started and the whole delay
\* after that start has elapsed; the joining begins only when every skill
\* has been started
C23_StaggeredStartInOrder ==
    /\ [](/\ \A j \in 2..NumSkills :
               SkillOrder[j] \in Started => SkillOrder[j - 1] \in Started
          /\ orch.pc = "join48" => Started = Skills)
    /\ [][\A j \in 1..NumSkills :
            (SkillOrder[j] \notin Started /\ pc'[SkillOrder[j]] # "created") =>
                /\ orch.pc = "start" /\ orch.i = j
                /\ orch'.pc = "sleep" /\ orch'.slept = 0
                /\ j > 1 => orch.slept = StartDelay
                /\ \A s \in Skills \ {SkillOrder[j]} : pc'[s] = "created" <=> pc[s] = "created"]_vars

\* every skill has been started, the last delay has elapsed and the
\* joining has begun
C23_Witness ==
    /\ orch.pc = "join48"
    /\ Started = Skills
    /\ ~orch.intr /\ ~orch.err

\* ------------------------------------------------- observers and the lock
\* C24: observeState(stateName) with a non-empty name whose key has a value
\* registers the skill: the call goes on into the store's registration
\* with the skill as the observer of that key; with an empty name it
\* returns into the task and no observer list changes
C24_ObserveStateRegisters ==
    [][\A s \in Skills :
         (pc[s] = "obs_276" /\ pc'[s] # "obs_276") =>
             IF NonEmpty(cur[s].key)
               THEN states[cur[s].key] # None =>
                        /\ pc'[s] = "reg_114"
                        /\ cur'[s] = RegCall(cur[s].key, ObserverOf(s))
               ELSE /\ pc'[s] = "task"
                    /\ observers' = observers /\ obsKeys' = obsKeys]_vars

\* C29: the lock is held only while a store operation is executing: a
\* thread that owns the mutex is inside getState or setState, so with no
\* thread inside either the mutex is free
C29_LockHeldOnlyInsideStoreCall ==
    (\A s \in Skills : ~InStoreCall(s)) => mutex = None

\* C30: a callback that calls getState or setState of the same store on
\* the notifying thread does not block its own setState: a thread waiting
\* for the lock inside a callback is never the thread that holds it
C30_CallbackMayAccessStore ==
    \A s \in Skills : pc[s] = "cb_75" => mutex # s

\* ------------------------------------------------------- the skills' tasks
\* C25: after a task() that found the daytime state to be Day and not bed
\* time, the mode is DAY_CLEAR iff clouds < maxCloudsClear; otherwise it is
\* DAY_DARK iff clouds > minCloudsCloudy or it rains, and DAY_MODERATE if
\* neither.  With clouds = minCloudsCloudy and no rain the mode is
\* DAY_MODERATE, with clouds 95 and minCloudsCloudy 90 it is DAY_DARK
\* (both once the sky is not clear)
C25_DayLightMode ==
    (hue.ran /\ hue.in.weather /\ hue.in.daytime /\ hue.in.state = "Day"
        /\ ~hue.in.bedTime) =>
        LET c == hue.in.clouds
            m == hue.lastModeSet
            clear == c < hue.maxCloudsClear
            dark == c > hue.minCloudsCloudy \/ hue.in.rain
        IN  /\ m = MODE_DAY_CLEAR <=> clear
            /\ ~clear => (m = MODE_DAY_DARK <=> dark)
            /\ (~clear /\ ~dark) => m = MODE_DAY_MODERATE
            /\ (~clear /\ c = hue.minCloudsCloudy /\ ~hue.in.rain) =>
                   m = MODE_DAY_MODERATE
            /\ (~clear /\ c = 95 /\ hue.minCloudsCloudy = 90) =>
                   m = MODE_DAY_DARK

\* a task() by day with the default thresholds, no rain and a cloud cover
\* of exactly minCloudsCloudy has set the moderate mode
C25_Witness ==
    /\ hue.ran /\ hue.in.weather /\ hue.in.daytime
    /\ hue.in.state = "Day" /\ ~hue.in.bedTime /\ ~hue.in.rain
    /\ hue.maxCloudsClear = DefaultMaxCloudsClear
    /\ hue.minCloudsCloudy = DefaultMinCloudsCloudy
    /\ hue.in.clouds = hue.minCloudsCloudy
    /\ hue.lastModeSet = MODE_DAY_MODERATE

\* C26: checkBedTime at time t uses the entry of the weekday D on which
\* the running midday-to-midday window began (the day before when t is
\* before midday) and returns true iff t is in [start, end), start and end
\* being placed inside that window: on D from midday on, on the next day
\* before midday; with no entry for D it returns false
C26_BedTimeWindow ==
    bed.ran =>
        LET D == IF bed.t < Midday THEN bed.d - 1 ELSE bed.d
            now == At(bed.d, bed.t)
        IN  bed.result <=>
              /\ Weekday(D) \in DOMAIN bed.table
              /\ LET start == bed.table[Weekday(D)][1]
                     end == bed.table[Weekday(D)][2]
                     startAt == IF start >= Midday THEN At(D, start)
                                ELSE At(D + 1, start)
                     endAt == IF end > Midday THEN At(D, end)
                              ELSE At(D + 1, end)
                 IN  startAt <= now /\ now < endAt

\* C27: once a cycle of the DaytimeSkill has ended, the store holds under
\* STATE_PREFIX a DaytimeState whose bedTime is the value the cycle
\* computed, for getState to return
C27_DaytimeStateStored ==
    (day.cycles /\ day.step = "idle") =>
        states[DayKey] = DaytimeStateOf(day.bedTime)

C31_DefaultTaskRunsOnce ==
    /\ [](pc[DefaultSkill] = "wait" =>
            /\ stopEvent[DefaultSkill]
            /\ ENABLED WaitReturn(DefaultSkill)
            /\ ~ENABLED WaitTick(DefaultSkill))
    /\ [][(pc[DefaultSkill] # "task" /\ pc'[DefaultSkill] = "task") =>
            ~ranTask[DefaultSkill]]_vars
    /\ (pc[DefaultSkill] # "created") ~> (pc[DefaultSkill] = "stopped")

\* the skill with the default task has stopped after its task ran, with a
\* positive interval, while the other skill is still in its loop
C31_Witness ==
    /\ pc[DefaultSkill] = "stopped"
    /\ ranTask[DefaultSkill]
    /\ via[DefaultSkill] = "wait"
    /\ interval[DefaultSkill] > 0
    /\ ~stopBeforeStart[DefaultSkill]
    /\ \E s \in Skills \ {DefaultSkill} : pc[s] = "wait" /\ ~stopEvent[s]

\* ----------------------------------------------------- separate instances
\* C34: two StateDataBase instances constructed without initialStates are
\* independent: a setState on one leaves, on the other, the value getState
\* returns for every key as it was, and with it whether a registerObserver
\* on that key takes effect
C34_InstancesIndependent ==
    [][(twin'.op # <<>> /\ twin'.op[1] = "set") =>
          \A j \in Instances \ {twin'.op[2]}, k \in StoreKeys :
              twin'.heap[twin'.states[j]][k] = twin.heap[twin.states[j]][k]]_vars

\* ------------------------------------------- what readers see of a device
\* C35: what a reader obtains for a key changes only through a setState on
\* that key: once the store holds a presence record for an address, the
\* record changes only in the step of the device detection's setState
\* that stores under that key, with the lock held
C35_ReadersSeeOnlySetState ==
    [][\A a \in Members(Addresses) :
          (states[a] # None /\ dev'.objs[a] # dev.objs[a]) =>
              /\ pc[DevSkill] = "set_96"
              /\ cur[DevSkill].key = a
              /\ mutex = DevSkill]_vars

\* ------------------------------------------------------- the TV speaker
\* C32: wakeup returns only in a cycle that read the TV as present while
\* alreadyAwake was false, and it is called only while no wakeup has
\* returned since the last cycle that read the TV as not present
\* (alreadyAwake is true exactly from a returned wakeup to such a cycle);
\* a cycle that finds no TV state calls nothing and leaves alreadyAwake,
\* a wakeup that raises leaves alreadyAwake false, and a cycle that reads
\* the TV as present with alreadyAwake false calls wakeup
C32_WakeupOncePerSwitchOn ==
    /\ [](/\ tv.alreadyAwake <=> ~tv.armed
          /\ tv.read = "absent" => (~tv.tried /\ ~tv.woke)
          /\ tv.woke => tv.tried
          /\ tv.tried => tv.read = "present")
    /\ [][/\ (tv'.woke /\ ~tv.woke) =>
                /\ tv.read = "present" /\ tv.tried
                /\ ~tv.alreadyAwake /\ tv.armed
                /\ tv'.alreadyAwake
          /\ (tv'.tried /\ ~tv.tried) =>
                (tv'.read = "present" /\ tv.armed /\ ~tv.alreadyAwake)
          /\ (tv'.read = "present" /\ tv.read = "none" /\ ~tv.alreadyAwake) =>
                tv'.tried
          /\ tv'.alreadyAwake # tv.alreadyAwake =>
                ((tv'.woke /\ ~tv.woke) \/ (tv'.read = "away" /\ tv.read = "none"))
          /\ (tv.step = "wakeup" /\ pc'[TvSkill] = "error") =>
                (~tv'.alreadyAwake /\ tv'.armed)]_vars

\* the TV is on and the speaker awake: a cycle has read the TV as present
\* and ended without calling wakeup again
C32_Witness ==
    /\ tv.alreadyAwake
    /\ tv.step = "done"
    /\ tv.read = "present"
    /\ ~tv.tried

\* ------------------------------------------------- the Hue skill's cycles
\* C33: the light action of a mode is called only in a cycle whose mode
\* differs from lastModeSet; lastModeSet changes only to the mode of a
\* cycle whose action was called and returned without raising; a cycle
\* that finds the daytime or the weather state absent calls no action and
\* leaves lastModeSet as it was
C33_ActsOnlyOnModeChange ==
    [][/\ hue'.acted =>
            /\ hue'.in.daytime /\ hue'.in.weather
            /\ HueDecide(hue, hue'.in) # hue.lastModeSet
       /\ hue'.lastModeSet # hue.lastModeSet =>
            /\ hue'.acted /\ ~hue'.raised
            /\ hue'.lastModeSet = HueDecide(hue, hue'.in)
       /\ hue'.raised => (hue'.acted /\ hue'.lastModeSet = hue.lastModeSet)
       /\ (~hue'.in.daytime \/ ~hue'.in.weather) =>
            (~hue'.acted /\ hue'.lastModeSet = hue.lastModeSet)
       /\ (hue'.in.daytime /\ hue'.in.weather
             /\ HueDecide(hue, hue'.in) = hue.lastModeSet) => ~hue'.acted]_vars

\* by day the action of a day mode has raised, and lastModeSet is still
\* the night mode set before
C33_Witness ==
    /\ hue.acted /\ hue.raised
    /\ hue.in.state = "Day" /\ ~hue.in.bedTime
    /\ hue.lastModeSet = MODE_NIGHT

=============================================================================
